---- MODULE Spec2Model ----
(***************************************************************************)
(* Model of the news-bot pipeline scripts of SHA256-news/scaling-winner:   *)
(*   clean       examples/news_bot_clean.py   (NewsBot.run + main)         *)
(*   news_bot    src/news_bot.py              (main)                       *)
(*   action      examples/news_bot_action.py  (main)                       *)
(*   with_issues src/clean_functional_news_bot_with_issues_backup.py       *)
(* One run = one behaviour: Startup, Fetch, then per article Generate,     *)
(* Save, Sleep, then Summarize and Publish.  The remote services and the   *)
(* file system are opaque: their outcomes are chosen nondeterministically. *)
(* TextSpec is the text level: the parsers of generate and the Markdown     *)
(* writer of save applied to one response text, character by character.    *)
(***************************************************************************)
EXTENDS Integers, Sequences, FiniteSets, TLC

\* ---------------------------------------------------------------- bounds
MaxArticles == 2      \* largest max_articles parameter explored
MaxResp == 3          \* most articles one news-search response carries

\* ------------------------------------------------------ program constants
KeywordMax == 2       \* news_bot_action.py: fetch_latest_news(keyword=..., max_articles=2)
CategoryMax == 3      \* news_bot_action.py: fetch_latest_news(category=..., max_articles=3)
SleepSeconds == 2     \* time.sleep(2)

Variants == {"clean", "news_bot", "action", "with_issues"}
Headlines == {"H1", "H2"}

VARIABLES
  env,                \* variant, credentials and parameters of the run
  pc,                 \* position of the single thread of control
  phase,              \* "keyword" or "category" (only action has two)
  news_articles,      \* list returned by the last fetch (article ids)
  i,                  \* 1-based position of the article being processed
  enhanced,           \* result of the last generate call, until it is dead
  generated_articles, \* clean: every generate result, in order
  saved_files,        \* saved_files / generated_files: returned paths
  category_articles,  \* action: articles saved in the category loop (their ids)
  storage,            \* set of Markdown paths present on disk
  report,             \* clean: summary report; action: summary data
  calls,              \* number of calls per collaborator
  lastFetch,          \* what the last fetch saw and returned
  log,                \* per processed article: generate and save outcome
  fetchedTotal,       \* number of articles returned by all fetches so far
  publishResult,      \* return value, message and response of publish
  exitCode,           \* process exit status, -1 while running
  raised,             \* an exception escaped main
  stamp,              \* last %Y%m%d_%H%M%S timestamp put into a file name
  response,           \* what the generation call of this iteration answered
  content,            \* text level: the response text handed to a parser
  title,              \* text level: title of the raw article
  parsed,             \* text level: what generate made of content
  document,           \* text level: what save rendered from parsed
  derived_name        \* text level: the file name save derived from content

pipelineVars == <<env, pc, phase, news_articles, i, enhanced, generated_articles,
                  saved_files, category_articles, storage, report, calls,
                  lastFetch, log, fetchedTotal, publishResult, exitCode, raised,
                  stamp, response>>
textVars == <<content, title, parsed, document, derived_name>>
vars == <<pipelineVars, textVars>>

\* ---------------------------------------------------------------- helpers
Min(a, b) == IF a < b THEN a ELSE b
Max(a, b) == IF a > b THEN a ELSE b
Idx(n) == [k \in 1..n |-> k]
NoFile == <<>>          \* the empty path "" returned by a failed save
NoResult == [error |-> FALSE, tagsOk |-> TRUE, headline |-> "none", exc |-> "none"]
NoReport == [kind |-> "none"]
NoFetch == [primary |-> "none", fallback |-> "none", max |-> 0, returned |-> 0,
            raised |-> FALSE]
NoPublish == [ret |-> FALSE, msg |-> "none", response |-> "none"]
NoParse == [by |-> "none"]
NoDocument == [by |-> "none"]
NoName == [by |-> "none"]

\* "articles.append(...); if len(articles) >= max_articles: break"
TakeAfterAppend(s, max) == SubSeq(s, 1, Min(Len(s), Max(max, 1)))

\* ids of the response items that pass "article.get('body') and article.get('title')"
ValidIds(results) == SelectSeq(Idx(Len(results)), LAMBDA k : results[k])

\* A news-search outcome: "ok" with its items (TRUE = has title and body),
\* "malformed" (a result without the 'articles' key), or "error" (the call
\* or the processing of an item raised; results = items seen before that).
Responses == UNION {[1..n -> BOOLEAN] : n \in 0..MaxResp}
FetchOutcomes == [kind : {"ok", "malformed", "error"}, results : Responses]

\* ------------------------------------------------------------------ fetch
clean_fetch_news(max_articles, out) ==
  IF out.kind = "ok"
    THEN [articles |-> TakeAfterAppend(Idx(Len(out.results)), max_articles),
          requests |-> 1, raised |-> FALSE]
    ELSE [articles |-> <<>>, requests |-> 1, raised |-> FALSE]

wi_fetch_news_articles(max_articles, out) ==
  IF out.kind = "ok"
    THEN [articles |-> TakeAfterAppend(Idx(Len(out.results)), max_articles),
          requests |-> 1, raised |-> FALSE]
    ELSE [articles |-> <<>>, requests |-> 1, raised |-> FALSE]

action_fetch_latest_news(max_articles, out) ==
  IF out.kind = "ok"
    THEN [articles |-> Idx(Len(out.results)), requests |-> 1, raised |-> FALSE]
    ELSE [articles |-> <<>>, requests |-> 1, raised |-> FALSE]

\* mutation: the except branch hands back the articles collected so far
nb_fetch_news_fallback_partial(max_articles, out) ==
  IF out.kind # "malformed"
    THEN [articles |-> ValidIds(out.results), requests |-> 1, raised |-> FALSE]
    ELSE [articles |-> <<>>, requests |-> 1, raised |-> FALSE]

nb_fetch_news_fallback(max_articles, out) ==
  IF out.kind = "ok"
    THEN [articles |-> ValidIds(out.results), requests |-> 1, raised |-> FALSE]
    ELSE [articles |-> <<>>, requests |-> 1, raised |-> FALSE]

\* mutation: the fallback request is also issued after a malformed response
nb_fetch_news_retry_malformed(max_articles, primary, fallback) ==
  IF primary.kind \in {"error", "malformed"}
    THEN LET fb == nb_fetch_news_fallback(max_articles, fallback)
         IN  [articles |-> fb.articles, requests |-> 1 + fb.requests,
              raised |-> fb.raised]
    ELSE [articles |-> TakeAfterAppend(ValidIds(primary.results), max_articles),
          requests |-> 1, raised |-> FALSE]

nb_fetch_news(max_articles, primary, fallback) ==
  IF primary.kind = "error"
    THEN LET fb == nb_fetch_news_fallback(max_articles, fallback)
         IN  [articles |-> fb.articles, requests |-> 1 + fb.requests,
              raised |-> fb.raised]
    ELSE IF primary.kind = "malformed"
      THEN [articles |-> <<>>, requests |-> 1, raised |-> FALSE]
      ELSE [articles |-> TakeAfterAppend(ValidIds(primary.results), max_articles),
            requests |-> 1, raised |-> FALSE]

\* the max_articles argument of the fetch call of main
MaxArg(v, ph, max_articles) ==
  IF v = "action" THEN (IF ph = "keyword" THEN KeywordMax ELSE CategoryMax)
  ELSE max_articles

FetchNews(v, ph, max_articles, primary, fallback) ==
  CASE v = "clean" -> clean_fetch_news(max_articles, primary)
    [] v = "with_issues" -> wi_fetch_news_articles(max_articles, primary)
    [] v = "news_bot" -> nb_fetch_news(max_articles, primary, fallback)
    [] v = "action" ->
         action_fetch_latest_news(MaxArg(v, ph, max_articles), primary)

\* --------------------------------------------------------------- generate
\* Outcome of the remote text-generation call: it raises, or returns text
\* that is empty, free text, a JSON object, a JSON object with an "error"
\* key, a JSON object whose "tags" is not a list of strings, or JSON that
\* is not an object.  headline is the headline the text carries (or, when
\* it carries none, the title of the source article).
GenKinds == {"raise", "empty", "text", "json", "json_error_key",
             "json_bad_tags", "json_nondict"}
GenOutcomes == [kind : GenKinds, headline : Headlines]

\* the failure marker: a dict with an "error" key (None in news_bot)
Failure(out) ==
  [error |-> TRUE, tagsOk |-> TRUE, headline |-> "none", exc |-> "none"]
Article(out, tagsOk) ==
  [error |-> FALSE, tagsOk |-> tagsOk, headline |-> out.headline, exc |-> "none"]
\* no value is returned: the exception exc leaves the generate call
GenEscapes(exc) ==
  [error |-> TRUE, tagsOk |-> TRUE, headline |-> "none", exc |-> exc]

\* every statement is inside try/except; the text is parsed by markers
clean_generate_article(out) ==
  IF out.kind = "raise" THEN Failure(out) ELSE Article(out, TRUE)

\* "if response.text: return {...} else: return None"; None is the failure
nb_generate_article(out) ==
  IF out.kind \in {"raise", "empty"} THEN Failure(out) ELSE Article(out, TRUE)

\* mutation: article_data.update(...) is moved behind the try block, so the
\* AttributeError of a reply that is JSON but not an object is not caught
action_generate_article_update_unguarded(out) ==
  CASE out.kind \in {"raise", "json_error_key"} -> Failure(out)
    [] out.kind = "json_nondict" -> GenEscapes("AttributeError")
    [] out.kind \in {"empty", "text", "json"} -> Article(out, TRUE)
    [] out.kind = "json_bad_tags" -> Article(out, FALSE)

\* The prompt is built before the try block from title, source, date and
\* body[:2000] of the raw article (texts, as fetch stores them); the remote
\* call, json.loads with its fallback structure on JSONDecodeError and
\* update(...) are inside it, so a reply that is not an object makes update
\* raise into the outer except.
action_generate_article(out) ==
  CASE out.kind \in {"raise", "json_nondict", "json_error_key"} -> Failure(out)
    [] out.kind \in {"empty", "text", "json"} -> Article(out, TRUE)
    [] out.kind = "json_bad_tags" -> Article(out, FALSE)

wi_generate_article_with_gemini(out) ==
  CASE out.kind \in {"raise", "json_nondict", "json_error_key"} -> Failure(out)
    [] out.kind \in {"empty", "text", "json"} -> Article(out, TRUE)
    [] out.kind = "json_bad_tags" -> Article(out, FALSE)

\* what the generation call answered, as far as the pipeline tells it apart:
\* it raised, its text is empty, its text is a JSON object, or it carries
\* some other text
ResponseClass(out) ==
  CASE out.kind = "raise" -> "raise"
    [] out.kind = "empty" -> "empty"
    [] out.kind \in {"json", "json_error_key", "json_bad_tags"} -> "object"
    [] OTHER -> "text"

GenerateArticle(v, out) ==
  CASE v = "clean" -> clean_generate_article(out)
    [] v = "news_bot" -> nb_generate_article(out)
    [] v = "action" -> action_generate_article(out)
    [] v = "with_issues" -> wi_generate_article_with_gemini(out)

\* ------------------------------------------------------------------- save
\* A save returns the path written ("" = NoFile when nothing was saved);
\* exc names the exception that escapes it, "none" when it returns.
IOOutcomes == {"ok", "io_error"}

Saved(filename) == [filename |-> filename, wrote |-> TRUE, exc |-> "none"]
NotSaved == [filename |-> NoFile, wrote |-> FALSE, exc |-> "none"]
Escapes(exc) == [filename |-> NoFile, wrote |-> FALSE, exc |-> exc]

\* mutation: the "error" test at the head of save is dropped
clean_save_article_unguarded(article, filename, io) ==
  IF io = "ok" THEN Saved(filename) ELSE NotSaved

\* "if 'error' in article: return ''"; the write is inside try/except
clean_save_article(article, filename, io) ==
  IF article.error THEN NotSaved
  ELSE IF io = "ok" THEN Saved(filename)
  ELSE NotSaved

\* The f-string that builds the document is evaluated outside the try block.
\* Its field ', '.join(article.get('tags', [])) raises TypeError on tags that
\* are not strings; its later field {conclusion_section} names a variable
\* that is never assigned (the assignment is text inside the f-string), so
\* for every other article it raises NameError.  open() is never reached.
action_save_article_to_markdown(article, filename, io) ==
  IF article.error THEN NotSaved
  ELSE IF ~article.tagsOk THEN Escapes("TypeError")
  ELSE Escapes("NameError")

\* no filename hint: "{safe_title}_{%Y%m%d_%H%M%S}.md"
wi_save_article_to_file(article, t, io) ==
  IF article.error THEN NotSaved
  ELSE IF ~article.tagsOk THEN Escapes("TypeError")
  ELSE IF io = "ok" THEN Saved(<<article.headline, t>>)
  ELSE NotSaved

\* "article_{safe_title}_{%Y%m%d_%H%M%S}.md"; open() is not guarded.  The
\* failure marker of news_bot is None, on which article['title'] raises.
nb_save_article(article, t, io) ==
  IF article.error THEN Escapes("TypeError")
  ELSE IF io = "ok" THEN Saved(<<article.headline, t>>)
  ELSE Escapes("OSError")

\* mutation: saved_files.insert(0, filename)
AppendFile_front(files, filename) == <<filename>> \o files

\* saved_files.append(filename) / generated_files.append(filename)
AppendFile(files, filename) == Append(files, filename)

\* the filename hint built by the orchestrator of clean and action
Hint(v, ph, idx) ==
  IF v = "clean" THEN <<"article", idx>> ELSE <<ph, idx>>

SaveArticle(v, ph, idx, article, t, io) ==
  CASE v = "clean" -> clean_save_article(article, Hint(v, ph, idx), io)
    [] v = "action" -> action_save_article_to_markdown(article, Hint(v, ph, idx), io)
    [] v = "with_issues" -> wi_save_article_to_file(article, t, io)
    [] v = "news_bot" -> nb_save_article(article, t, io)

\* ---------------------------------------------------------------- summary
\* len([a for a in articles if "error" in a]) and its complement
CountError(articles, flag) ==
  Cardinality({k \in 1..Len(articles) : articles[k].error = flag})

\* mutation: successful_articles counted without the "error" filter
create_summary_report_unfiltered(articles) ==
  [kind |-> "report",
   total_articles |-> Len(articles),
   successful_articles |-> Len(articles),
   failed_articles |-> CountError(articles, TRUE)]

create_summary_report(articles) ==
  [kind |-> "report",
   total_articles |-> Len(articles),
   successful_articles |-> CountError(articles, FALSE),
   failed_articles |-> CountError(articles, TRUE)]

action_summary_data(generated_files, cat_articles) ==
  [kind |-> "summary",
   articles_generated |-> Len(generated_files),
   files |-> generated_files,
   articles |-> cat_articles]

\* ---------------------------------------------------------------- publish
TrackerResponses == {"201", "201_malformed", "200", "404", "500", "transport_error"}
Is2xx(r) == r \in {"201", "201_malformed", "200"}

\* mutation: publishing is skipped only when both credentials are absent
nb_create_github_issue_and(articles, github_token, github_repo, resp) ==
  IF ~github_token /\ ~github_repo
    THEN [ret |-> FALSE, msg |-> "skipped", posts |-> 0, raised |-> FALSE]
  ELSE IF resp = "201"
    THEN [ret |-> TRUE, msg |-> "created", posts |-> 1, raised |-> FALSE]
  ELSE IF resp \in {"201_malformed", "transport_error"}
    THEN [ret |-> FALSE, msg |-> "error", posts |-> 1, raised |-> FALSE]
  ELSE [ret |-> FALSE, msg |-> "failed", posts |-> 1, raised |-> FALSE]

nb_create_github_issue(articles, github_token, github_repo, resp) ==
  IF ~github_token \/ ~github_repo
    THEN [ret |-> FALSE, msg |-> "skipped", posts |-> 0, raised |-> FALSE]
  ELSE IF resp = "201"
    THEN [ret |-> TRUE, msg |-> "created", posts |-> 1, raised |-> FALSE]
  ELSE IF resp \in {"201_malformed", "transport_error"}
    THEN [ret |-> FALSE, msg |-> "error", posts |-> 1, raised |-> FALSE]
  ELSE [ret |-> FALSE, msg |-> "failed", posts |-> 1, raised |-> FALSE]

\* mutation: requests.post is called outside the try block
wi_create_github_issue_unguarded(articles, github_token, github_repo, resp) ==
  IF ~github_token \/ ~github_repo
    THEN [ret |-> FALSE, msg |-> "skipped", posts |-> 0, raised |-> FALSE]
  ELSE IF resp = "201"
    THEN [ret |-> TRUE, msg |-> "created", posts |-> 1, raised |-> FALSE]
  ELSE IF resp = "transport_error"
    THEN [ret |-> FALSE, msg |-> "error", posts |-> 1, raised |-> TRUE]
  ELSE IF resp = "201_malformed"
    THEN [ret |-> FALSE, msg |-> "error", posts |-> 1, raised |-> FALSE]
  ELSE [ret |-> FALSE, msg |-> "failed", posts |-> 1, raised |-> FALSE]

wi_create_github_issue(articles, github_token, github_repo, resp) ==
  IF ~github_token \/ ~github_repo
    THEN [ret |-> FALSE, msg |-> "skipped", posts |-> 0, raised |-> FALSE]
  ELSE IF resp = "201"
    THEN [ret |-> TRUE, msg |-> "created", posts |-> 1, raised |-> FALSE]
  ELSE IF resp \in {"201_malformed", "transport_error"}
    THEN [ret |-> FALSE, msg |-> "error", posts |-> 1, raised |-> FALSE]
  ELSE [ret |-> FALSE, msg |-> "failed", posts |-> 1, raised |-> FALSE]

CreateGithubIssue(v, articles, github_token, github_repo, resp) ==
  IF v = "news_bot"
    THEN nb_create_github_issue(articles, github_token, github_repo, resp)
    ELSE wi_create_github_issue(articles, github_token, github_repo, resp)

\* ----------------------------------------------------------- orchestrator
\* mutation: "and" in place of "or" in the credential test
KeysMissing_and(e) ==
  ~e.eventregistry_key /\ ~e.google_key

\* "if not eventregistry_key or not google_key"
KeysMissing(e) ==
  ~e.eventregistry_key \/ ~e.google_key

\* exit status when the keys are missing: sys.exit(1), except with_issues,
\* whose main runs demo_mode() and returns True ("0 if main() else 1")
MissingKeysExit(v) == IF v = "with_issues" THEN 0 ELSE 1

\* clean and action call time.sleep(2) at the end of each loop iteration
HasSleep(v) == v \in {"clean", "action"}

\* mutation: every script fetches a second time after its first loop
AfterLoop_refetch(v, ph) ==
  IF ph = "keyword"
    THEN [pc |-> "fetching", phase |-> "category", i |-> 0]
    ELSE [pc |-> "summarizing", phase |-> ph, i |-> 0]

\* where control goes when the loop over news_articles is exhausted
AfterLoop(v, ph) ==
  IF v = "action" /\ ph = "keyword"
    THEN [pc |-> "fetching", phase |-> "category", i |-> 0]
    ELSE [pc |-> "summarizing", phase |-> ph, i |-> 0]

\* mutation: the loop is left after its first iteration
NextStep_break(v, ph, idx, n) == AfterLoop(v, ph)

\* where control goes after the iteration for article idx of n has ended
NextStep(v, ph, idx, n) ==
  IF idx < n THEN [pc |-> "generating", phase |-> ph, i |-> idx + 1]
  ELSE AfterLoop(v, ph)

\* where control goes after generate/save of article idx
PostArticle(v, ph, idx, n) ==
  IF HasSleep(v) THEN [pc |-> "sleeping", phase |-> ph, i |-> idx]
  ELSE NextStep(v, ph, idx, n)

\* exit status of a run that found no article: clean returns an "error"
\* report and main exits 1; news_bot exits 1; with_issues returns False
NoArticlesExit(v) == 1

\* news_bot / with_issues: "if not generated_files" exits 1 / returns False
NoFilesExit(v) == 1

\* exit status of a run that reaches the end of main
CompletedExit(v, publishRet) == 0

NoCalls == [fetch |-> 0, request |-> 0, generate |-> 0, save |-> 0,
            sleep |-> 0, slept |-> 0, publish |-> 0, post |-> 0]

Envs ==
  {e \in [variant : Variants, eventregistry_key : BOOLEAN, google_key : BOOLEAN,
          github_token : BOOLEAN, github_repo : BOOLEAN, keyword : BOOLEAN,
          max_articles : 1..MaxArticles] :
     /\ e.variant # "action" => e.keyword
     /\ e.variant \in {"clean", "action"} => ~e.github_token /\ ~e.github_repo
     /\ e.variant = "action" => e.max_articles = MaxArticles}

Init ==
  /\ env \in Envs
  /\ pc = "init"
  /\ phase = "keyword"
  /\ news_articles = <<>>
  /\ i = 0
  /\ enhanced = NoResult
  /\ generated_articles = <<>>
  /\ saved_files = <<>>
  /\ category_articles = <<>>
  /\ storage = {}
  /\ report = NoReport
  /\ calls = NoCalls
  /\ lastFetch = NoFetch
  /\ log = <<>>
  /\ fetchedTotal = 0
  /\ publishResult = NoPublish
  /\ exitCode = -1
  /\ raised = FALSE
  /\ stamp = 0
  /\ response = "none"
  /\ content = <<>>
  /\ title = <<>>
  /\ parsed = NoParse
  /\ document = NoDocument
  /\ derived_name = NoName

\* main up to the credential check
Startup ==
  /\ pc = "init"
  /\ IF KeysMissing(env)
       THEN /\ pc' = "done"
            /\ exitCode' = MissingKeysExit(env.variant)
            /\ phase' = phase
       ELSE /\ pc' = "fetching"
            /\ exitCode' = exitCode
            /\ phase' = IF env.variant = "action" /\ ~env.keyword
                          THEN "category" ELSE "keyword"
  /\ UNCHANGED <<env, news_articles, i, enhanced, generated_articles,
                 saved_files, category_articles, storage, report, calls,
                 lastFetch, log, fetchedTotal, publishResult, raised, stamp,
                 response>>
  /\ UNCHANGED textVars

\* the fetch call and the "if not articles" test that follows it
Fetch ==
  /\ pc = "fetching"
  /\ \E primary \in FetchOutcomes, fallback \in FetchOutcomes :
       LET r == FetchNews(env.variant, phase, env.max_articles, primary, fallback)
           nxt == IF r.articles = <<>>
                    THEN AfterLoop(env.variant, phase)
                    ELSE [pc |-> "generating", phase |-> phase, i |-> 1]
       IN  /\ news_articles' = r.articles
           /\ calls' = [calls EXCEPT !.fetch = @ + 1, !.request = @ + r.requests]
           /\ lastFetch' = [primary |-> primary.kind,
                            fallback |-> IF r.requests = 2 THEN fallback.kind
                                         ELSE "none",
                            max |-> MaxArg(env.variant, phase, env.max_articles),
                            returned |-> Len(r.articles),
                            raised |-> r.raised]
           /\ fetchedTotal' = fetchedTotal + Len(r.articles)
           /\ IF r.raised
                THEN /\ pc' = "done" /\ exitCode' = 1 /\ raised' = TRUE
                     /\ UNCHANGED <<phase, i>>
              ELSE IF r.articles = <<>> /\ env.variant # "action"
                THEN /\ pc' = "done" /\ exitCode' = NoArticlesExit(env.variant)
                     /\ UNCHANGED <<phase, i, raised>>
              ELSE /\ pc' = nxt.pc /\ phase' = nxt.phase /\ i' = nxt.i
                   /\ UNCHANGED <<exitCode, raised>>
  /\ UNCHANGED <<env, enhanced, generated_articles, saved_files,
                 category_articles, storage, report, log, publishResult, stamp,
                 response>>
  /\ UNCHANGED textVars

\* one generate call and the "error" test that follows it
Generate ==
  /\ pc = "generating"
  /\ \E out \in GenOutcomes :
       LET res == GenerateArticle(env.variant, out)
           nxt == IF res.exc # "none"
                    THEN [pc |-> "done", phase |-> phase, i |-> i]
                  ELSE IF ~res.error
                    THEN [pc |-> "saving", phase |-> phase, i |-> i]
                    ELSE PostArticle(env.variant, phase, i, Len(news_articles))
       IN  /\ enhanced' = res
           /\ response' = ResponseClass(out)
           /\ generated_articles' = IF env.variant = "clean"
                                      THEN Append(generated_articles, res)
                                      ELSE generated_articles
           /\ log' = Append(log, [phase |-> phase, idx |-> i,
                                  id |-> news_articles[i],
                                  gen |-> IF res.exc # "none" THEN "raised"
                                          ELSE IF res.error THEN "fail" ELSE "ok",
                                  save |-> "none"])
           /\ pc' = nxt.pc /\ phase' = nxt.phase /\ i' = nxt.i
           /\ raised' = (res.exc # "none")
           /\ exitCode' = IF res.exc # "none" THEN 1 ELSE exitCode
  /\ calls' = [calls EXCEPT !.generate = @ + 1]
  /\ UNCHANGED <<env, news_articles, saved_files, category_articles, storage,
                 report, lastFetch, fetchedTotal, publishResult, stamp>>
  /\ UNCHANGED textVars

\* one save call and the "if filename" test that follows it
Save ==
  /\ pc = "saving"
  /\ \E io \in IOOutcomes, dt \in {0, 1} :
       LET t == stamp + dt
           r == SaveArticle(env.variant, phase, i, enhanced, t, io)
           nxt == PostArticle(env.variant, phase, i, Len(news_articles))
           kept == r.exc = "none" /\ r.filename # NoFile
       IN  /\ storage' = IF r.wrote THEN storage \cup {r.filename} ELSE storage
           /\ saved_files' = IF kept THEN AppendFile(saved_files, r.filename)
                             ELSE saved_files
           /\ category_articles' =
                IF kept /\ env.variant = "action" /\ phase = "category"
                  THEN Append(category_articles, news_articles[i])
                  ELSE category_articles
           /\ log' = [log EXCEPT ![Len(log)].save =
                        IF r.exc # "none" THEN r.exc
                        ELSE IF r.filename = NoFile THEN "io_fail" ELSE "ok"]
           /\ IF r.exc # "none"
                THEN /\ pc' = "done" /\ exitCode' = 1 /\ raised' = TRUE
                     /\ UNCHANGED <<phase, i>>
                ELSE /\ pc' = nxt.pc /\ phase' = nxt.phase /\ i' = nxt.i
                     /\ UNCHANGED <<exitCode, raised>>
           /\ stamp' = IF env.variant \in {"news_bot", "with_issues"} THEN t
                       ELSE stamp
  /\ enhanced' = NoResult
  /\ response' = "none"
  /\ calls' = [calls EXCEPT !.save = @ + 1]
  /\ UNCHANGED <<env, news_articles, generated_articles, report,
                 lastFetch, fetchedTotal, publishResult>>
  /\ UNCHANGED textVars

\* time.sleep(2) at the end of an iteration
Sleep ==
  /\ pc = "sleeping"
  /\ LET nxt == NextStep(env.variant, phase, i, Len(news_articles))
     IN  pc' = nxt.pc /\ phase' = nxt.phase /\ i' = nxt.i
  /\ calls' = [calls EXCEPT !.sleep = @ + 1, !.slept = @ + SleepSeconds]
  /\ response' = "none"
  /\ UNCHANGED <<env, news_articles, enhanced, generated_articles, saved_files,
                 category_articles, storage, report, lastFetch, log,
                 fetchedTotal, publishResult, exitCode, raised, stamp>>
  /\ UNCHANGED textVars

\* what follows the loop: the summary of clean and action, the
\* "if not generated_files" test of news_bot and with_issues
Summarize ==
  /\ pc = "summarizing"
  /\ CASE env.variant = "clean" ->
            /\ report' = create_summary_report(generated_articles)
            /\ pc' = "done"
            /\ exitCode' = CompletedExit(env.variant, FALSE)
       [] env.variant = "action" ->
            /\ report' = IF category_articles # <<>>
                           THEN action_summary_data(saved_files, category_articles)
                           ELSE report
            /\ pc' = "done"
            /\ exitCode' = CompletedExit(env.variant, FALSE)
       [] OTHER ->
            /\ report' = report
            /\ IF saved_files = <<>>
                 THEN pc' = "done" /\ exitCode' = NoFilesExit(env.variant)
                 ELSE pc' = "publishing" /\ exitCode' = exitCode
  /\ UNCHANGED <<env, phase, news_articles, i, enhanced, generated_articles,
                 saved_files, category_articles, storage, calls, lastFetch,
                 log, fetchedTotal, publishResult, raised, stamp, response>>
  /\ UNCHANGED textVars

\* create_github_issue and the end of main
Publish ==
  /\ pc = "publishing"
  /\ \E resp \in TrackerResponses :
       LET r == CreateGithubIssue(env.variant, saved_files, env.github_token,
                                  env.github_repo, resp)
       IN  /\ publishResult' = [ret |-> r.ret, msg |-> r.msg,
                                response |-> IF r.posts > 0 THEN resp ELSE "none"]
           /\ calls' = [calls EXCEPT !.publish = @ + 1, !.post = @ + r.posts]
           /\ raised' = r.raised
           /\ exitCode' = IF r.raised THEN 1
                          ELSE CompletedExit(env.variant, r.ret)
  /\ pc' = "done"
  /\ UNCHANGED <<env, phase, news_articles, i, enhanced, generated_articles,
                 saved_files, category_articles, storage, report, lastFetch,
                 log, fetchedTotal, stamp, response>>
  /\ UNCHANGED textVars

Next ==
  \/ Startup
  \/ Fetch
  \/ Generate
  \/ Save
  \/ Sleep
  \/ Summarize
  \/ Publish

Spec == Init /\ [][Next]_vars

\* ========================================================== save alone
\* The save functions applied to every result generate can return, the
\* failure marker included; main itself calls save only with an article.
\* The run stands in its first iteration, with zero or one file saved by
\* an earlier call.
PriorFile == <<"prior", 0>>

SaveInputs ==
  {r \in {GenerateArticle(v, out) : v \in Variants, out \in GenOutcomes} :
     r.exc = "none"}

SaveInit ==
  /\ env \in {e \in Envs : ~KeysMissing(e)}
  /\ pc = "saving"
  /\ phase = (IF env.variant = "action" /\ ~env.keyword
                THEN "category" ELSE "keyword")
  /\ news_articles = <<1>>
  /\ i = 1
  /\ enhanced \in SaveInputs
  /\ generated_articles = (IF env.variant = "clean" THEN <<enhanced>> ELSE <<>>)
  /\ saved_files \in {<<>>, <<PriorFile>>}
  /\ category_articles = <<>>
  /\ storage = {saved_files[k] : k \in 1..Len(saved_files)}
  /\ report = NoReport
  /\ calls = [NoCalls EXCEPT !.fetch = 1, !.request = 1, !.generate = 1]
  /\ lastFetch = [primary |-> "ok", fallback |-> "none",
                  max |-> MaxArg(env.variant, phase, env.max_articles),
                  returned |-> 1, raised |-> FALSE]
  /\ log = <<[phase |-> phase, idx |-> 1, id |-> 1,
              gen |-> IF enhanced.error THEN "fail" ELSE "ok",
              save |-> "none"]>>
  /\ fetchedTotal = 1
  /\ publishResult = NoPublish
  /\ exitCode = -1
  /\ raised = FALSE
  /\ stamp = 0
  /\ response = "none"
  /\ content = <<>>
  /\ title = <<>>
  /\ parsed = NoParse
  /\ document = NoDocument
  /\ derived_name = NoName

SaveNext ==
  \/ Save

SaveSpec == SaveInit /\ [][SaveNext]_vars

\* ============================================================ text level
\* The parsers and the Markdown writer as functions of the response text.  A
\* text is a sequence of characters (one-character strings).
MaxPieces == 4        \* most pieces concatenated into one enumerated text

JsonFenceLen == 7     \* article_text[7:-3]
FenceLen == 3         \* article_text[3:-3]
LeadChars == 300      \* article_text[:300] + "..."
SummaryChars == 200   \* article_text[:200] + "..."

NL == "\n"
Whitespace == {" ", NL}
HEADLINE == <<"H", "E", "A", "D", "L", "I", "N", "E", ":">>
LEAD == <<"L", "E", "A", "D", ":">>
BODY == <<"B", "O", "D", "Y", ":">>
CONCLUSION == <<"C", "O", "N", "C", "L", "U", "S", "I", "O", "N", ":">>
\* markers = ["HEADLINE:", "LEAD:", "BODY:", "CONCLUSION:"]
Markers == <<HEADLINE, LEAD, BODY, CONCLUSION>>
\* the backquote character, written as a token of its own
Backquote == "bq"
FENCE == <<Backquote, Backquote, Backquote>>
FENCE_JSON == FENCE \o <<"j", "s", "o", "n">>
Ellipsis == <<".", ".", ".">>
\* the literal "Article summary not available", kept as one token
LeadDefault == <<"Article summary not available">>

\* s.find(sub, start): 0-based position of the first occurrence of sub at or
\* after start, -1 when there is none
Find(s, sub, start) ==
  LET found == {q \in start..(Len(s) - Len(sub)) :
                  SubSeq(s, q + 1, q + Len(sub)) = sub}
  IN  IF found = {} THEN -1
      ELSE CHOOSE q \in found : \A r \in found : q <= r

\* s[lo:hi] for 0 <= lo and 0 <= hi
Slice(s, lo, hi) == SubSeq(s, lo + 1, Min(hi, Len(s)))
\* s[lo:-n]
SliceFromEnd(s, lo, n) == Slice(s, lo, Max(Len(s) - n, 0))
\* s.startswith(prefix)
StartsWith(s, prefix) ==
  Len(s) >= Len(prefix) /\ SubSeq(s, 1, Len(prefix)) = prefix

\* s.strip()
RECURSIVE LStrip(_)
LStrip(s) ==
  IF s # <<>> /\ Head(s) \in Whitespace THEN LStrip(Tail(s)) ELSE s
RECURSIVE RStrip(_)
RStrip(s) ==
  IF s # <<>> /\ s[Len(s)] \in Whitespace
    THEN RStrip(SubSeq(s, 1, Len(s) - 1)) ELSE s
Strip(s) == RStrip(LStrip(s))

\* the expression "a or b" on two strings
Or(a, b) == IF a # <<>> THEN a ELSE b

\* _extract_section: from the end of the first occurrence of marker to the
\* first blank line after it; only when there is no blank line, to the
\* nearest other marker after it or the end of the text
extract_section(text, marker) ==
  IF Find(text, marker, 0) = -1 THEN <<>>
  ELSE
    LET start == Find(text, marker, 0) + Len(marker)
        blank == Find(text, <<NL, NL>>, start)
        others == {Find(text, Markers[k], start) :
                     k \in {j \in 1..Len(Markers) : Markers[j] # marker}} \ {-1}
        next_marker_pos ==
          IF others = {} THEN Len(text)
          ELSE CHOOSE q \in others : \A r \in others : q <= r
        end == IF blank # -1 THEN blank ELSE next_marker_pos
    IN  Strip(Slice(text, start, end))

NoSections == [headline |-> <<>>, lead |-> <<>>, body |-> <<>>, conclusion |-> <<>>]

\* mutation: a missing lead is left empty
clean_parse_response_empty_lead(text, news_title) ==
  LET headline == extract_section(text, HEADLINE)
      lead == extract_section(text, LEAD)
      body == extract_section(text, BODY)
      conclusion == extract_section(text, CONCLUSION)
  IN  [by |-> "clean", error |-> FALSE, json |-> FALSE, handed |-> text,
       sections |-> [headline |-> headline, lead |-> lead, body |-> body,
                     conclusion |-> conclusion],
       fields |-> [headline |-> Or(headline, news_title),
                   lead |-> lead,
                   body |-> Or(body, text),
                   conclusion |-> Or(conclusion, <<>>)]]

\* generate_article of clean from "content = response.text" on: the four
\* sections and the dict built from them with its "or" defaults
clean_parse_response(text, news_title) ==
  LET headline == extract_section(text, HEADLINE)
      lead == extract_section(text, LEAD)
      body == extract_section(text, BODY)
      conclusion == extract_section(text, CONCLUSION)
  IN  [by |-> "clean", error |-> FALSE, json |-> FALSE, handed |-> text,
       sections |-> [headline |-> headline, lead |-> lead, body |-> body,
                     conclusion |-> conclusion],
       fields |-> [headline |-> Or(headline, news_title),
                   lead |-> Or(lead, LeadDefault),
                   body |-> Or(body, text),
                   conclusion |-> Or(conclusion, <<>>)]]

\* "Clean JSON formatting": text that starts with a fence loses the fence
\* and its last FenceLen characters, whatever these are
action_clean_json_formatting(text) ==
  LET article_text == Strip(text)
  IN  IF StartsWith(article_text, FENCE_JSON)
        THEN Strip(SliceFromEnd(article_text, JsonFenceLen, FenceLen))
      ELSE IF StartsWith(article_text, FENCE)
        THEN Strip(SliceFromEnd(article_text, FenceLen, FenceLen))
      ELSE article_text

wi_clean_json_response(text) ==
  LET article_text == Strip(text)
  IN  IF StartsWith(article_text, FENCE_JSON)
        THEN Strip(SliceFromEnd(article_text, JsonFenceLen, FenceLen))
      ELSE IF StartsWith(article_text, FENCE)
        THEN Strip(SliceFromEnd(article_text, FenceLen, FenceLen))
      ELSE article_text

\* json.loads on a reduced JSON: an object is written "{" followed by four
\* one-letter values (headline, lead, body, conclusion) and "}", the text
\* "1" is a number, every other text is not JSON
Letters == {"A", "B", "C", "D"}
json_loads(t) ==
  LET u == Strip(t)
  IN  IF Len(u) = 6 /\ u[1] = "{" /\ u[6] = "}" /\ \A k \in 2..5 : u[k] \in Letters
        THEN [kind |-> "object",
              value |-> [headline |-> <<u[2]>>, lead |-> <<u[3]>>,
                         body |-> <<u[4]>>, conclusion |-> <<u[5]>>]]
      ELSE IF u = <<"1">>
        THEN [kind |-> "number", value |-> NoSections]
      ELSE [kind |-> "JSONDecodeError", value |-> NoSections]

\* mutation: on JSONDecodeError the text is parsed by its markers
action_fallback_structure_markers(article_text, news_title) ==
  [headline |-> Or(extract_section(article_text, HEADLINE), news_title),
   lead |-> extract_section(article_text, LEAD),
   body |-> Or(extract_section(article_text, BODY), article_text),
   conclusion |-> extract_section(article_text, CONCLUSION)]

\* "Fallback structure" of the except json.JSONDecodeError branch
action_fallback_structure(article_text, news_title) ==
  [headline |-> news_title,
   lead |-> Slice(article_text, 0, LeadChars) \o Ellipsis,
   body |-> article_text,
   conclusion |-> <<>>]

\* "Fallback if JSON parsing fails"
wi_fallback_structure(article_text, news_title) ==
  [headline |-> news_title,
   content |-> article_text,
   summary |-> Slice(article_text, 0, SummaryChars) \o Ellipsis]

\* generate_article of action from "article_text = response.text.strip()"
\* on; update(...) on a value that is not an object raises into the outer
\* except, which returns the error dict
action_parse_response(text, news_title) ==
  LET article_text == action_clean_json_formatting(text)
      v == json_loads(article_text)
  IN  [by |-> "action",
       error |-> v.kind = "number",
       json |-> v.kind # "JSONDecodeError",
       handed |-> article_text,
       sections |-> NoSections,
       fields |-> IF v.kind = "JSONDecodeError"
                    THEN action_fallback_structure(article_text, news_title)
                    ELSE v.value]

wi_parse_response(text, news_title) ==
  LET article_text == wi_clean_json_response(text)
      v == json_loads(article_text)
  IN  [by |-> "with_issues",
       error |-> v.kind = "number",
       json |-> v.kind # "JSONDecodeError",
       handed |-> article_text,
       sections |-> NoSections,
       fields |-> IF v.kind = "JSONDecodeError"
                    THEN wi_fallback_structure(article_text, news_title)
                    ELSE v.value]

\* The Markdown document as its list of headed sections (the metadata lines
\* and the footer carry no field of the parsed text).  clean writes the
\* "## Conclusion" heading in every document.
clean_render_markdown(article) ==
  [by |-> "clean", exc |-> "none",
   sections |-> <<[h |-> "#", text |-> article.headline],
                  [h |-> "## Summary", text |-> article.lead],
                  [h |-> "## Article", text |-> article.body],
                  [h |-> "## Conclusion", text |-> article.conclusion]>>]

\* the f-string of action names conclusion_section, which is never assigned
action_render_markdown(article) ==
  [by |-> "action", exc |-> "NameError", sections |-> <<>>]

\* ------------------------------------------------------------- file name
FilenameChars == 50   \* [:50]

\* the characters of the texts for which c.isalnum() is false; every other
\* character of the texts is a letter or a digit
NonAlnum == {":", NL, " ", "-", "_", "!", "{", "}", ".", Backquote}
\* c.isalnum() or c in (' ', '-', '_')
IsSafeChar(c) == c \notin NonAlnum \/ c \in {" ", "-", "_"}

\* mutation: the generator runs over title[1:]
safe_chars_skip_first(headline) ==
  SelectSeq(Slice(headline, 1, Len(headline)), IsSafeChar)

\* "".join(c for c in title if c.isalnum() or c in (' ', '-', '_'))
safe_chars(headline) == SelectSeq(headline, IsSafeChar)

\* s.replace(' ', '_')
ReplaceSpaces(t) == [k \in 1..Len(t) |-> IF t[k] = " " THEN "_" ELSE t[k]]

\* datetime.now().strftime('%Y%m%d_%H%M%S') at second t of a fixed minute
Strftime(t) ==
  <<"2", "0", "2", "5", "0", "1", "0", "1", "_", "1", "2", "0", "0", "0">>
    \o <<IF t = 0 THEN "0" ELSE "1">>
DotMd == <<".", "m", "d">>
ArticlePrefix == <<"a", "r", "t", "i", "c", "l", "e", "_">>

\* mutation: the title is not cut to FilenameChars
clean_safe_title_uncut(headline) == Strip(safe_chars(headline))

\* safe_title of clean: filter, strip, cut
clean_safe_title(headline) ==
  Slice(Strip(safe_chars(headline)), 0, FilenameChars)

wi_safe_title(headline) ==
  Slice(Strip(safe_chars(headline)), 0, FilenameChars)

\* safe_title of news_bot: filter, strip, spaces to underscores, cut
nb_safe_title(headline) ==
  Slice(ReplaceSpaces(Strip(safe_chars(headline))), 0, FilenameChars)

\* f"{safe_title}_{timestamp}.md"
clean_filename(headline, t) ==
  [by |-> "clean", stamp |-> t,
   filtered |-> safe_chars(headline),
   refiltered |-> safe_chars(safe_chars(headline)),
   safe_title |-> clean_safe_title(headline),
   name |-> clean_safe_title(headline) \o <<"_">> \o Strftime(t) \o DotMd]

wi_filename(headline, t) ==
  [by |-> "with_issues", stamp |-> t,
   filtered |-> safe_chars(headline),
   refiltered |-> safe_chars(safe_chars(headline)),
   safe_title |-> wi_safe_title(headline),
   name |-> wi_safe_title(headline) \o <<"_">> \o Strftime(t) \o DotMd]

\* f"article_{safe_title}_{timestamp}.md"
nb_filename(headline, t) ==
  [by |-> "news_bot", stamp |-> t,
   filtered |-> safe_chars(headline),
   refiltered |-> safe_chars(safe_chars(headline)),
   safe_title |-> nb_safe_title(headline),
   name |-> ArticlePrefix \o nb_safe_title(headline) \o <<"_">>
              \o Strftime(t) \o DotMd]

\* ------------------------------------------------------------ text inputs
RECURSIVE Concat(_)
Concat(pieces) ==
  IF pieces = <<>> THEN <<>> ELSE Head(pieces) \o Concat(Tail(pieces))

Pieces == {HEADLINE, LEAD, <<NL>>, <<"A">>}
PieceTexts ==
  {Concat(ps) : ps \in UNION {[1..n -> Pieces] : n \in 0..MaxPieces}}

\* "HEADLINE: A\nLEAD: B\nBODY: C\nCONCLUSION: D"
FourSections ==
  HEADLINE \o <<" ", "A", NL>> \o LEAD \o <<" ", "B", NL>> \o
  BODY \o <<" ", "C", NL>> \o CONCLUSION \o <<" ", "D">>
\* "HEADLINE: Only this"
OnlyThis == <<"O", "n", "l", "y", " ", "t", "h", "i", "s">>
OnlyHeadline == HEADLINE \o <<" ">> \o OnlyThis
\* sections separated by blank lines, two paragraphs in the body
BlankLines ==
  HEADLINE \o <<" ", "A", NL, NL>> \o LEAD \o <<" ", "B", NL, NL>> \o
  BODY \o <<" ", "C", NL, NL, "C", NL, NL>> \o CONCLUSION \o <<" ", "D">>
\* a text longer than LeadChars
LongText == [k \in 1..(LeadChars + 1) |-> "x"]
ObjectText == <<"{", "A", "B", "C", "D", "}">>

Payloads == {<<>>, ObjectText, <<"1">>, <<"A", "B">>, OnlyHeadline, FourSections}
FenceTexts ==
  {pre \o pay \o suf :
     pre \in {<<>>, FENCE, FENCE_JSON, FENCE_JSON \o <<NL>>},
     pay \in Payloads,
     suf \in {<<>>, FENCE, <<NL>> \o FENCE}}

\* headlines: letters, spaces, hyphens and a character that is not kept
NameChars == {"a", " ", "-", "!"}
NameTexts == UNION {[1..n -> NameChars] : n \in 0..MaxPieces}
\* "a_b c": an underscore and an inner space
UnderscoreTitle == <<"a", "_", "b", " ", "c">>
\* FilenameChars - 1 letters, a space and two more letters
LongTitle == [k \in 1..(FilenameChars - 1) |-> "x"] \o <<" ", "y", "z">>

Texts == PieceTexts \cup FenceTexts \cup NameTexts
           \cup {BlankLines, LongText, UnderscoreTitle, LongTitle}
Titles == {<<"T">>}

IdleEnv ==
  [variant |-> "clean", eventregistry_key |-> TRUE, google_key |-> TRUE,
   github_token |-> FALSE, github_repo |-> FALSE, keyword |-> TRUE,
   max_articles |-> 1]

\* one response text and one raw article title; the pipeline stands still
TextInit ==
  /\ content \in Texts
  /\ title \in Titles
  /\ parsed = NoParse
  /\ document = NoDocument
  /\ derived_name = NoName
  /\ env = IdleEnv
  /\ pc = "init"
  /\ phase = "keyword"
  /\ news_articles = <<>>
  /\ i = 0
  /\ enhanced = NoResult
  /\ generated_articles = <<>>
  /\ saved_files = <<>>
  /\ category_articles = <<>>
  /\ storage = {}
  /\ report = NoReport
  /\ calls = NoCalls
  /\ lastFetch = NoFetch
  /\ log = <<>>
  /\ fetchedTotal = 0
  /\ publishResult = NoPublish
  /\ exitCode = -1
  /\ raised = FALSE
  /\ stamp = 0
  /\ response = "none"

ParseClean ==
  /\ parsed.by = "none"
  /\ parsed' = clean_parse_response(content, title)
  /\ UNCHANGED <<content, title, document, derived_name>>
  /\ UNCHANGED pipelineVars

ParseAction ==
  /\ parsed.by = "none"
  /\ parsed' = action_parse_response(content, title)
  /\ UNCHANGED <<content, title, document, derived_name>>
  /\ UNCHANGED pipelineVars

ParseWithIssues ==
  /\ parsed.by = "none"
  /\ parsed' = wi_parse_response(content, title)
  /\ UNCHANGED <<content, title, document, derived_name>>
  /\ UNCHANGED pipelineVars

\* save of an article that has no "error" key, up to the open() call
RenderClean ==
  /\ parsed.by = "clean"
  /\ ~parsed.error
  /\ document.by = "none"
  /\ document' = clean_render_markdown(parsed.fields)
  /\ UNCHANGED <<content, title, parsed, derived_name>>
  /\ UNCHANGED pipelineVars

RenderAction ==
  /\ parsed.by = "action"
  /\ ~parsed.error
  /\ document.by = "none"
  /\ document' = action_render_markdown(parsed.fields)
  /\ UNCHANGED <<content, title, parsed, derived_name>>
  /\ UNCHANGED pipelineVars

\* save without a filename hint, up to the file name; content is the headline
NameClean ==
  /\ parsed.by = "none"
  /\ derived_name.by = "none"
  /\ \E t \in {0, 1} : derived_name' = clean_filename(content, t)
  /\ UNCHANGED <<content, title, parsed, document>>
  /\ UNCHANGED pipelineVars

NameWithIssues ==
  /\ parsed.by = "none"
  /\ derived_name.by = "none"
  /\ \E t \in {0, 1} : derived_name' = wi_filename(content, t)
  /\ UNCHANGED <<content, title, parsed, document>>
  /\ UNCHANGED pipelineVars

NameNewsBot ==
  /\ parsed.by = "none"
  /\ derived_name.by = "none"
  /\ \E t \in {0, 1} : derived_name' = nb_filename(content, t)
  /\ UNCHANGED <<content, title, parsed, document>>
  /\ UNCHANGED pipelineVars

TextNext ==
  \/ ParseClean
  \/ ParseAction
  \/ ParseWithIssues
  \/ RenderClean
  \/ RenderAction
  \/ NameClean
  \/ NameWithIssues
  \/ NameNewsBot

TextSpec == TextInit /\ [][TextNext]_vars

\* ================================================================ claims
KeysPresent == env.eventregistry_key /\ env.google_key
Done == pc = "done"
GenFailedAt(k) == log[k].gen = "fail"
IOFailedAt(k) == log[k].save \in {"io_fail", "OSError"}
NoTypeError == \A k \in 1..Len(log) : log[k].save \notin {"TypeError", "NameError"}

\* C1: in a finished run over n fetched articles generate was called exactly
\* n times, and save was called at most n times: exactly once for every
\* generate result that is not a failure and never for a failure.
C1_GenerateOncePerArticle ==
  Done =>
    /\ calls.generate = fetchedTotal
    /\ calls.save <= fetchedTotal
    /\ calls.save = Cardinality({k \in 1..Len(log) : ~GenFailedAt(k)})
    /\ \A k \in 1..Len(log) : GenFailedAt(k) => log[k].save = "none"

\* C2: in the summary report of clean, successful_articles + failed_articles
\* equals total_articles, which is the number of articles fetch returned.
C2_SummaryCountsAddUp ==
  report.kind = "report" =>
    /\ report.successful_articles + report.failed_articles = report.total_articles
    /\ report.total_articles = Len(news_articles)
    /\ report.total_articles = fetchedTotal

C2_Witness ==
  /\ Done
  /\ report.kind = "report"
  /\ report.successful_articles >= 1
  /\ report.failed_articles >= 1

\* C3: the number of saved files recorded by the orchestrator equals the
\* success count of the summary report, also when a save failed on storage.
C3_SavedFilesEqualSuccessCount ==
  report.kind = "report" => Len(saved_files) = report.successful_articles

\* C4: after a generation failure or a storage failure for the article at
\* some position, every later article is still passed to generate and the
\* run is not aborted (stated for runs without an exception of another kind).
C4_ContinuesAfterFailure ==
  (Done /\ NoTypeError /\ \E k \in 1..Len(log) : GenFailedAt(k) \/ IOFailedAt(k))
    => /\ ~raised
       /\ Len(log) = fetchedTotal

\* C5: a run that started with both required keys exits nonzero if and only
\* if no article was generated and saved (stated for runs that fetched at
\* least one article; the run without articles is C6).
C5_NonzeroExitIffNothingSaved ==
  (Done /\ KeysPresent /\ fetchedTotal >= 1)
    => ((exitCode # 0) <=> (saved_files = <<>>))

\* C6: when every fetch of the run returned zero articles, the run ends with
\* no generate call, no file written, no success and a nonzero exit status.
C6_ZeroArticlesExitNonzero ==
  (Done /\ KeysPresent /\ calls.fetch >= 1 /\ fetchedTotal = 0)
    => /\ calls.generate = 0
       /\ storage = {}
       /\ saved_files = <<>>
       /\ exitCode # 0

\* C7 (as stated): with a required key missing the run exits nonzero before
\* any fetch, generate, save or publish call.
C7_MissingKeysExitNonzero ==
  (Done /\ ~KeysPresent) => (exitCode # 0 /\ calls = NoCalls)

\* C7 (amended): with a required key missing the run ends before any fetch,
\* generate, save or publish call; the exit status is nonzero in news_bot,
\* clean and action, and zero in with_issues, which runs its demo mode.
C7_MissingKeysNoWork ==
  ~KeysPresent =>
    /\ pc \in {"init", "done"}
    /\ calls = NoCalls
    /\ storage = {}
    /\ Done => exitCode = (IF env.variant = "with_issues" THEN 0 ELSE 1)

C7_Witness ==
  /\ Done
  /\ env.eventregistry_key
  /\ ~env.google_key
  /\ exitCode = 1

\* C8: publish called without the tracker token or without the repository
\* id returns the skipped result and makes no request to the tracker.
C8_PublishSkippedWithoutCredentials ==
  (~env.github_token \/ ~env.github_repo) =>
    /\ calls.post = 0
    /\ calls.publish > 0 =>
         /\ publishResult.msg = "skipped"
         /\ publishResult.ret = FALSE
         /\ publishResult.response = "none"

C8_Witness ==
  /\ calls.publish = 1
  /\ env.github_token
  /\ ~env.github_repo
  /\ Len(saved_files) >= 2

\* C9: when the tracker answers with a status that is not 2xx, or the request
\* fails in transport, publish returns its failure result without raising and
\* the run ends with the exit status of a run whose publish succeeded (0).
C9_PublishFailureDoesNotAbort ==
  calls.post > 0 =>
    /\ Done
    /\ ~raised
    /\ exitCode = 0
    /\ ~Is2xx(publishResult.response) =>
         /\ publishResult.ret = FALSE
         /\ publishResult.msg \in {"failed", "error"}

C9_Witness ==
  /\ Done
  /\ calls.post = 1
  /\ publishResult.response \in {"404", "500", "transport_error"}
  /\ publishResult.ret = FALSE
  /\ exitCode = 0

LastRequest == IF lastFetch.fallback # "none" THEN lastFetch.fallback
               ELSE lastFetch.primary

GeneratedOnce ==
  /\ calls.generate = Len(log)
  /\ \A j, k \in 1..Len(log) :
       (j < k /\ log[j].phase = log[k].phase) => log[j].idx < log[k].idx

C13_EmptyOrErrorIsFailure ==
  response \in {"raise", "empty"} =>
    /\ enhanced.error
    /\ pc # "saving"
    /\ log[Len(log)].gen = "fail"

\* C14: between any two consecutive generate calls of a run the delay of
\* SleepSeconds is performed: after k generate calls the run has slept at
\* least k - 1 times.
C14_DelayBetweenGenerateCalls ==
  calls.generate >= 2 =>
    /\ calls.sleep >= calls.generate - 1
    /\ calls.slept >= SleepSeconds * (calls.generate - 1)

\* C20: save fails only when storage fails: no save call ends with an
\* exception or a failure that storage did not cause.
C20_SaveFailsOnlyOnStorage ==
  \A k \in 1..Len(log) : log[k].save \in {"none", "ok", "io_fail", "OSError"}

\* ---------------------------------------------------- text-level claims
MarkerOf ==
  [headline |-> HEADLINE, lead |-> LEAD, body |-> BODY, conclusion |-> CONCLUSION]
Present(marker) == Find(content, marker, 0) # -1
ContainsMarker(t) == \E k \in 1..Len(Markers) : Find(t, Markers[k], 0) # -1

\* the text from the end of marker to the next recognized marker, or to the
\* end of the text, without the surrounding white space
SectionOf(text, marker) ==
  LET start == Find(text, marker, 0) + Len(marker)
      nexts == {Find(text, Markers[k], start) : k \in 1..Len(Markers)} \ {-1}
      end == IF nexts = {} THEN Len(text)
             ELSE CHOOSE q \in nexts : \A r \in nexts : q <= r
  IN  Strip(Slice(text, start, end))

\* C15: for each marker present in the text, the marker parser returns the
\* text from that marker to the next recognized marker or the end of the
\* text: no extracted field contains a marker and no text is dropped.
C15_SectionRunsToNextMarker ==
  parsed.by = "clean" =>
    \A n \in DOMAIN MarkerOf :
      Present(MarkerOf[n]) =>
        /\ parsed.sections[n] = SectionOf(content, MarkerOf[n])
        /\ ~ContainsMarker(parsed.sections[n])

\* C16 (as stated): for a marker that does not occur in the text the marker
\* parser yields an empty field, except that a missing headline becomes the
\* original title and a missing body the full response text.
C16_MissingMarkerYieldsEmpty ==
  parsed.by = "clean" =>
    /\ ~parsed.error
    /\ ~Present(HEADLINE) => parsed.fields.headline = title
    /\ ~Present(LEAD) => parsed.fields.lead = <<>>
    /\ ~Present(BODY) => parsed.fields.body = content
    /\ ~Present(CONCLUSION) => parsed.fields.conclusion = <<>>

\* C16 (amended): for a marker that does not occur in the text the marker
\* parser extracts nothing and raises nothing; the article then carries the
\* original title as headline, the placeholder "Article summary not
\* available" as lead, the full response text as body and an empty
\* conclusion.
C16_MissingMarkerDefaults ==
  parsed.by = "clean" =>
    /\ ~parsed.error
    /\ \A n \in DOMAIN MarkerOf :
         ~Present(MarkerOf[n]) => parsed.sections[n] = <<>>
    /\ ~Present(HEADLINE) => parsed.fields.headline = title
    /\ ~Present(LEAD) => parsed.fields.lead = LeadDefault
    /\ ~Present(BODY) => parsed.fields.body = content
    /\ ~Present(CONCLUSION) => parsed.fields.conclusion = <<>>

C16_Witness ==
  /\ content = OnlyHeadline
  /\ parsed.by = "clean"
  /\ parsed.fields.headline = OnlyThis
  /\ parsed.fields.lead = LeadDefault
  /\ parsed.fields.body = OnlyHeadline
  /\ parsed.fields.conclusion = <<>>

\* s.endswith(suffix)
EndsWith(t, suffix) ==
  Len(t) >= Len(suffix) /\ SubSeq(t, Len(t) - Len(suffix) + 1, Len(t)) = suffix

\* the response without its leading fence ("```json" or "```") and without
\* its trailing fence, each removed only when present
RemoveFences(text) ==
  LET t0 == Strip(text)
      t1 == IF StartsWith(t0, FENCE_JSON) THEN Slice(t0, Len(FENCE_JSON), Len(t0))
            ELSE IF StartsWith(t0, FENCE) THEN Slice(t0, Len(FENCE), Len(t0))
            ELSE t0
      t2 == IF EndsWith(t1, FENCE) THEN Slice(t1, 0, Len(t1) - Len(FENCE))
            ELSE t1
  IN  Strip(t2)

\* C17: the JSON strategy strips only the fence markers: the text handed to
\* the JSON parser is the response without its leading and trailing fence,
\* no other character removed, and a fenced object yields its field values.
C17_OnlyFencesStripped ==
  parsed.by \in {"action", "with_issues"} =>
    /\ parsed.handed = RemoveFences(content)
    /\ RemoveFences(content) = ObjectText =>
         (~parsed.error /\ parsed.fields = json_loads(ObjectText).value)

\* the article of the marker-delimited strategy for a text
MarkerStrategy(text, news_title) ==
  [headline |-> Or(extract_section(text, HEADLINE), news_title),
   lead |-> extract_section(text, LEAD),
   body |-> Or(extract_section(text, BODY), text),
   conclusion |-> extract_section(text, CONCLUSION)]

\* C18 (as stated): when the text is not a JSON object the JSON strategy
\* falls back to the marker-delimited strategy: headline, lead, body and
\* conclusion are those the marker parser extracts from the same text.
C18_FallbackToMarkerParser ==
  (parsed.by = "action" /\ ~parsed.json) =>
    parsed.fields = MarkerStrategy(parsed.handed, title)

\* C18 (amended): when the text is not JSON the JSON strategy does not
\* look for markers; it returns a fixed structure: the original title as
\* headline, the whole text as body (content), its first LeadChars
\* (SummaryChars) characters followed by "..." as lead (summary), and in
\* action an empty conclusion.
C18_FallbackIsFixedStructure ==
  /\ (parsed.by = "action" /\ ~parsed.json) =>
       /\ ~parsed.error
       /\ parsed.fields.headline = title
       /\ parsed.fields.body = parsed.handed
       /\ parsed.fields.lead = Slice(parsed.handed, 0, LeadChars) \o Ellipsis
       /\ Len(parsed.fields.lead) <= LeadChars + Len(Ellipsis)
       /\ parsed.fields.conclusion = <<>>
  /\ (parsed.by = "with_issues" /\ ~parsed.json) =>
       /\ ~parsed.error
       /\ parsed.fields.headline = title
       /\ parsed.fields.content = parsed.handed
       /\ parsed.fields.summary = Slice(parsed.handed, 0, SummaryChars) \o Ellipsis

C18_Witness ==
  /\ content = FourSections
  /\ parsed.by = "action"
  /\ ~parsed.json
  /\ parsed.fields.headline = title
  /\ parsed.fields.body = FourSections
  /\ parsed.fields.conclusion = <<>>

HasHeading(doc, h) == \E k \in 1..Len(doc) : doc[k].h = h

\* C19: the rendered document contains the "## Conclusion" heading if and
\* only if the conclusion of the article is not empty, and then the heading
\* is followed by the conclusion text.
C19_ConclusionHeadingIffNonEmpty ==
  (document.by # "none" /\ document.exc = "none") =>
    /\ HasHeading(document.sections, "## Conclusion")
         <=> parsed.fields.conclusion # <<>>
    /\ \A k \in 1..Len(document.sections) :
         document.sections[k].h = "## Conclusion" =>
           document.sections[k].text = parsed.fields.conclusion

\* the characters of a headline that a file name may keep, in order
Kept(headline) == SelectSeq(headline, IsSafeChar)

\* s without its leading and trailing spaces
Trimmed(s) ==
  LET inner == {k \in 1..Len(s) : s[k] # " "}
  IN IF inner = {} THEN <<>>
     ELSE LET lo == CHOOSE k \in inner : \A m \in inner : k <= m
              hi == CHOOSE k \in inner : \A m \in inner : m <= k
          IN [k \in 1..(hi - lo + 1) |-> s[lo + k - 1]]

\* the first n characters of s
FirstChars(s, n) == [k \in 1..Min(Len(s), n) |-> s[k]]

Suffix(t) == <<"_">> \o Strftime(t) \o DotMd

\* C21 (as stated): without a hint the file name is exactly the headline
\* without the characters that are not alphanumerics, spaces, hyphens or
\* underscores, cut to at most FilenameChars characters, followed by the
\* YYYYMMDD_HHMMSS timestamp and ".md".
C21_NameIsFilteredHeadlineAndStamp ==
  derived_name.by # "none" =>
    derived_name.name =
      FirstChars(Kept(content), FilenameChars) \o Suffix(derived_name.stamp)

\* C21 (amended): the headline-derived part is the filtered headline with
\* its leading and trailing spaces removed, cut to at most FilenameChars
\* characters; news_bot also turns the remaining spaces into underscores
\* before the cut and puts "article_" in front of the name. The file name
\* is that part, "_", the YYYYMMDD_HHMMSS timestamp and ".md". The
\* headline-derived part holds only alphanumerics, spaces, hyphens and
\* underscores and is never longer than FilenameChars.
C21_NameIsStrippedFilteredHeadlineAndStamp ==
  derived_name.by # "none" =>
    LET part == derived_name.safe_title
        stripped == Trimmed(Kept(content))
    IN /\ derived_name.by \in {"clean", "with_issues"} =>
            /\ part = FirstChars(stripped, FilenameChars)
            /\ derived_name.name = part \o Suffix(derived_name.stamp)
       /\ derived_name.by = "news_bot" =>
            /\ part = FirstChars(ReplaceSpaces(stripped), FilenameChars)
            /\ derived_name.name =
                 ArticlePrefix \o part \o Suffix(derived_name.stamp)
       /\ \A k \in 1..Len(part) : IsSafeChar(part[k])
       /\ Len(part) <= FilenameChars

\* a headline longer than FilenameChars with a character that is dropped
\* nowhere and a space at the cut
C21_Witness ==
  /\ content = LongTitle
  /\ derived_name.by = "clean"
  /\ Len(derived_name.safe_title) = FilenameChars
  /\ derived_name.safe_title[FilenameChars] = " "

\* C22: the character filter of the file name derivation is idempotent:
\* filtering the filtered headline gives the filtered headline.
C22_FilterIdempotent ==
  derived_name.by # "none" =>
    derived_name.refiltered = derived_name.filtered

\* a headline that loses a character to the filter and keeps others
C22_Witness ==
  /\ derived_name.by # "none"
  /\ derived_name.filtered # <<>>
  /\ Len(derived_name.filtered) < Len(content)
  /\ derived_name.refiltered = derived_name.filtered

\* C23: saved files are one-to-one with the successfully rewritten
\* articles: no two saves of a run return the same path, so the number of
\* files on storage equals the number of successful saves.
C23_SavedFilesOneToOne ==
  /\ \A a, b \in 1..Len(saved_files) :
       a # b => saved_files[a] # saved_files[b]
  /\ Cardinality(storage) = Len(saved_files)

\* position of a step of main in the order Init, Fetching,
\* (Generating, Saving)*, Summarizing, Publishing, Done
Rank(p) ==
  CASE p = "init" -> 0
    [] p = "fetching" -> 1
    [] p \in {"generating", "saving", "sleeping"} -> 2
    [] p = "summarizing" -> 3
    [] p = "publishing" -> 4
    [] p = "done" -> 5

Fetches == calls'.fetch > calls.fetch
Generates == calls'.generate > calls.generate
Saves == calls'.save > calls.save
Publishes == calls'.publish > calls.publish

\* C24 (as stated): a run goes through Init, Fetching, (Generating,
\* Saving)*, Summarizing, Publishing, Done in this order; fetch is called
\* once, before the first generate call, and never after a generate call.
C24_FetchOnceBeforeGenerate ==
  [][/\ Rank(pc') >= Rank(pc)
     /\ Fetches => (calls.fetch = 0 /\ calls.generate = 0)
     /\ Generates => calls.fetch = 1]_vars

\* C24 (amended): the order holds for each criteria set.  clean, news_bot
\* and with_issues run one criteria set: fetch is called at most once,
\* before every generate call, and a run that generates has fetched once.
\* action runs two, the keyword and then the category: it calls fetch once
\* for each, the second call after the generate calls of the keyword set
\* and before those of the category set.  No generate or save call follows
\* the summary or the publish call.
C24_FetchOncePerCriteriaSet ==
  [][/\ Rank(pc') >= Rank(pc)
          \/ (env.variant = "action" /\ phase = "keyword"
                /\ phase' = "category" /\ pc' = "fetching")
     /\ Fetches =>
          IF env.variant = "action"
            THEN /\ calls.fetch <= 1
                 /\ phase = "category" \/ calls.fetch = 0
                 /\ \A k \in 1..Len(log) : log[k].phase = "keyword"
            ELSE calls.fetch = 0 /\ calls.generate = 0
     /\ Generates =>
          /\ calls.fetch >= 1
          /\ env.variant # "action" => calls.fetch = 1
          /\ phase = "category" => \A k \in 1..Len(log) :
               log[k].phase = "category" => log[k].idx < i
          /\ report = NoReport /\ calls.publish = 0
     /\ Saves => (report = NoReport /\ calls.publish = 0)
     /\ Publishes => pc' = "done"]_vars

\* an action run that generated for the keyword set and then fetched again
C24_Witness ==
  /\ env.variant = "action"
  /\ calls.fetch = 2
  /\ \E k \in 1..Len(log) : log[k].phase = "keyword"
  /\ \E k \in 1..Len(log) : log[k].phase = "category"
  /\ pc = "done"

HasTrackerCredentials == env.github_token /\ env.github_repo

\* C25: with tracker credentials, publish issues exactly one create-record
\* call, after generate (and save, for an article that was generated) has
\* completed for every fetched article; no generate or save call follows it.
C25_PublishOnceAfterAllArticles ==
  /\ []((HasTrackerCredentials /\ calls.publish > 0) =>
          /\ calls.publish = 1
          /\ calls.post = 1
          /\ pc = "done"
          /\ Len(log) = Len(news_articles)
          /\ \A k \in 1..Len(log) :
               /\ log[k].id = news_articles[k]
               /\ log[k].gen = "fail" \/ log[k].save # "none")
  /\ [][(Generates \/ Saves) => (calls.publish = 0 /\ calls.post = 0)]_vars

\* two fetched articles, both handled, then one create-record call
C25_Witness ==
  /\ HasTrackerCredentials
  /\ Len(news_articles) = 2
  /\ \E k \in 1..Len(log) : log[k].gen = "fail"
  /\ calls.post = 1
  /\ pc = "done"

\* C26: fetch returns at most max_articles articles, whatever the news
\* service answers, also through the fallback request.
C26_FetchReturnsAtMostMax ==
  calls.fetch > 0 => lastFetch.returned <= lastFetch.max

\* s is t or t with one more element at its end
GrowsByAppend(s, t) ==
  \/ t = s
  \/ Len(t) = Len(s) + 1 /\ SubSeq(t, 1, Len(s)) = s

\* C27: the list of generated articles and the list of saved files only
\* grow by appending, and the saved files are in the order of their source
\* articles: a file is appended for the article in hand, after the files
\* of every article fetched before it.
C27_ResultsAppendOnlyInFetchOrder ==
  [][/\ GrowsByAppend(generated_articles, generated_articles')
     /\ GrowsByAppend(saved_files, saved_files')
     /\ saved_files' # saved_files =>
          /\ Saves
          /\ log'[Len(log')].save = "ok"
          /\ log'[Len(log')].id = news_articles[i]
          /\ Len(saved_files) =
               Cardinality({k \in 1..(Len(log) - 1) : log[k].save = "ok"})
          /\ \A k \in 1..(Len(log) - 1) :
               log[k].phase = phase => log[k].idx < i
     /\ generated_articles' # generated_articles =>
          /\ Generates
          /\ Len(generated_articles) = Len(log)
          /\ \A k \in 1..Len(log) : log[k].idx < i]_vars

\* two generated articles and two saved files in one run
C27_Witness ==
  /\ Len(generated_articles) = 2
  /\ Len(saved_files) = 2
  /\ saved_files[1] # saved_files[2]

\* C29: a reply that the generation service returned and that parses as a
\* JSON object is always treated as a rewritten article and handed to save,
\* whatever its keys; a failure comes only from a call that raised or
\* returned no usable text.
C29_JsonObjectIsAlwaysAnArticle ==
  response = "object" =>
    /\ ~enhanced.error
    /\ log[Len(log)].gen = "ok"
    /\ pc = "saving"

\* the save call of the last log entry returned the empty path
ReturnedEmptyPath(entry) == entry.save = "io_fail"

\* C30: save called with a generation-failure result leaves storage
\* unchanged: it writes no file, returns the empty path, and the list of
\* saved files is not extended (news_bot_clean.py, news_bot_action.py and
\* the with_issues script, whose save tests for the failure marker).
C30_SaveOfFailureChangesNothing ==
  [][(Saves /\ enhanced.error
        /\ env.variant \in {"clean", "action", "with_issues"}) =>
       /\ storage' = storage
       /\ saved_files' = saved_files
       /\ category_articles' = category_articles
       /\ ReturnedEmptyPath(log'[Len(log')])
       /\ ~raised']_vars

\* save was called with the failure marker after one file had been saved
C30_Witness ==
  /\ env.variant = "clean"
  /\ calls.save = 1
  /\ log[1].gen = "fail"
  /\ ReturnedEmptyPath(log[1])
  /\ saved_files = <<PriorFile>>
  /\ storage = {PriorFile}

====
